---- MODULE Spec2Model ----
(***************************************************************************)
(* Model of src/app.py, a Streamlit page that sends a prompt to the        *)
(* Gemini API and renders the parts of the returned response.              *)
(*                                                                         *)
(* One script run is three steps: StartRun (lines 27-61: the widgets are   *)
(* read and the session slot is initialised), Handler (lines 63-98: the    *)
(* generate handler) and Display (lines 101-166: the display block).       *)
(* The page of a run is the sequence `out` of the calls made to the        *)
(* Streamlit output functions, in call order.                              *)
(***************************************************************************)
EXTENDS Integers, Sequences, FiniteSets, TLC

VARIABLES
    generate_button,    \* st.button("Generate Content") of the current run
    prompt,             \* st.text_area(...) of the current run
    google_api_key,     \* the resolved key (input, secrets or environment)
    generated_content,  \* st.session_state.generated_content
    out,                \* the output calls of the current run, in order
    pc,                 \* position of the script: "idle", "handler", "display"
    runs,               \* number of script runs started in the session
    api_calls,          \* number of model.generate_content calls made so far
    outcome,            \* what the handler of the current run did
    err,                \* message of the exception caught at line 96, or ""
    content_before      \* generated_content as it was when the run started

vars == <<generate_button, prompt, google_api_key, generated_content, out, pc,
          runs, api_calls, outcome, err, content_before>>

----------------------------------------------------------------------------
(* Bounds *)

MaxParts == 3

MaxSessionParts == 1

MaxRuns == 2

----------------------------------------------------------------------------
(* Values *)

\* The session slot before line 61 has run: the key is not in session_state.
Unset == [unset |-> TRUE]

\* Python's None, the value line 61 stores.
None == [none |-> TRUE]

Prompts == {"", "a cat"}

ApiKeys == {"", "key"}

ErrorMessages == {"quota exceeded", "invalid key"}

Texts == {"", "t1", "t2"}

\* inline_data.data as received: empty, two base64 images, and a payload
\* that does not decode to an image.
Payloads == {"", "b64A", "b64B", "junk"}

\* A part without inline data (attribute missing, or a falsy value).
NoInline == [set |-> FALSE, data |-> ""]

InlineData == {[set |-> TRUE, data |-> d] : d \in Payloads}

Parts ==
    {[inline_data |-> NoInline, text |-> t] : t \in Texts}
    \cup {[inline_data |-> b, text |-> t] : b \in InlineData, t \in {"", "t1"}}

RECURSIVE SeqsUpTo(_, _)
SeqsUpTo(S, n) ==
    IF n = 0 THEN {<<>>}
    ELSE LET shorter == SeqsUpTo(S, n - 1)
         IN  shorter \cup {Append(s, x) : s \in {t \in shorter : Len(t) = n - 1}, x \in S}

\* What is read of a candidate: finish_reason ("absent" when the attribute
\* is missing), whether safety_ratings exists, and whether content and
\* content.parts exist (shape).
Candidate(fr, sr, shape, parts) ==
    [finish_reason |-> fr, has_safety_ratings |-> sr, shape |-> shape, parts |-> parts]

CandidateHeads ==
    {<<"absent", FALSE>>, <<"STOP", TRUE>>, <<"SAFETY", TRUE>>, <<"SAFETY", FALSE>>}

\* What is read of a response: its candidates, its text attribute ("" when
\* missing or empty) and whether prompt_feedback exists.
Response(cands, text, pf) ==
    [candidates |-> cands, text |-> text, has_prompt_feedback |-> pf]

ResponsesUpTo(n) ==
    {Response(<<>>, "", pf) : pf \in BOOLEAN}
    \cup {Response(<<Candidate(h[1], h[2], "parts", ps)>>, "", TRUE) :
            h \in CandidateHeads, ps \in SeqsUpTo(Parts, n)}
    \cup {Response(<<Candidate(h[1], h[2], shape, <<>>)>>, t, TRUE) :
            h \in {<<"absent", FALSE>>, <<"SAFETY", TRUE>>},
            shape \in {"no_content", "no_parts"}, t \in {"", "t1"}}

Responses == ResponsesUpTo(MaxParts)

SessionResponses == ResponsesUpTo(MaxSessionParts)

----------------------------------------------------------------------------
(* Output calls *)

Call(fn, what, idx, val) == [fn |-> fn, what |-> what, idx |-> idx, val |-> val]

Raised == "raised"

\* base64.b64decode (line 122). A payload that is not an image either makes
\* b64decode raise or yields bytes Image.open rejects; both end in the except
\* clause of line 127, so the junk payload is carried to Image.open.
B64Decode(data) ==
    CASE data = "b64A" -> "bytesA"
      [] data = "b64B" -> "bytesB"
      [] OTHER -> "bytesJunk"

\* Image.open (line 123): raises on bytes that are not an image.
ImageOpen(bytes) ==
    CASE bytes = "bytesA" -> "imageA"
      [] bytes = "bytesB" -> "imageB"
      [] OTHER -> Raised

\* Lines 117-136: the body of the loop for the part at enumerate index i.
\* The variants before it are the same body with one plausible slip each.

\* slip: the text test is an `if` of its own instead of an `elif`
RenderPartTextAlways(i, part) ==
    (IF part.inline_data.set
     THEN IF part.inline_data.data # ""
          THEN LET image == ImageOpen(B64Decode(part.inline_data.data))
               IN  IF image = Raised
                   THEN <<Call("warning", "decode_failed", i + 1, "")>>
                   ELSE <<Call("image", "generated_image", i + 1, image)>>
          ELSE <<Call("warning", "no_data", i + 1, "")>>
     ELSE <<>>)
    \o (IF part.text # ""
        THEN <<Call("write", "text_label", i + 1, ""),
               Call("write", "text", i + 1, part.text)>>
        ELSE IF part.inline_data.set THEN <<>>
             ELSE <<Call("write", "unknown_part", i + 1, "")>>)

\* slip: the final else is `pass`, and an image part without data is passed over
RenderPartSilentSkip(i, part) ==
    IF part.inline_data.set
    THEN IF part.inline_data.data # ""
         THEN LET image == ImageOpen(B64Decode(part.inline_data.data))
              IN  IF image = Raised
                  THEN <<Call("warning", "decode_failed", i + 1, "")>>
                  ELSE <<Call("image", "generated_image", i + 1, image)>>
         ELSE <<>>
    ELSE IF part.text # ""
         THEN <<Call("write", "text_label", i + 1, ""),
                Call("write", "text", i + 1, part.text)>>
         ELSE <<>>

\* slip: the decoded image is also saved to a file
RenderPartSavesFile(i, part) ==
    IF part.inline_data.set
    THEN IF part.inline_data.data # ""
         THEN LET image == ImageOpen(B64Decode(part.inline_data.data))
              IN  IF image = Raised
                  THEN <<Call("warning", "decode_failed", i + 1, "")>>
                  ELSE <<Call("file_write", "generated_image", i + 1, image),
                         Call("image", "generated_image", i + 1, image)>>
         ELSE <<Call("warning", "no_data", i + 1, "")>>
    ELSE IF part.text # ""
         THEN <<Call("write", "text_label", i + 1, ""),
                Call("write", "text", i + 1, part.text)>>
         ELSE <<Call("write", "unknown_part", i + 1, "")>>

RenderPart(i, part) ==
    IF part.inline_data.set
    THEN \* lines 119-128: the part is image data
         IF part.inline_data.data # ""
         THEN LET image == ImageOpen(B64Decode(part.inline_data.data))
              IN  IF image = Raised
                  THEN <<Call("warning", "decode_failed", i + 1, "")>>
                  ELSE <<Call("image", "generated_image", i + 1, image)>>
         ELSE <<Call("warning", "no_data", i + 1, "")>>
    ELSE IF part.text # ""
         THEN \* lines 133-134
              <<Call("write", "text_label", i + 1, ""),
                Call("write", "text", i + 1, part.text)>>
         ELSE \* line 136
              <<Call("write", "unknown_part", i + 1, "")>>

IsImage(c) == c.fn = "image"

\* slip: the loop breaks after the first image it has shown
RECURSIVE RenderFromBreakAfterImage(_, _)
RenderFromBreakAfterImage(parts, i) ==
    IF i >= Len(parts) THEN <<>>
    ELSE LET shown == RenderPart(i, parts[i + 1])
         IN  IF SelectSeq(shown, IsImage) # <<>> THEN shown
             ELSE shown \o RenderFromBreakAfterImage(parts, i + 1)

\* Line 116: for i, part in enumerate(parts), from index i to the end.
RECURSIVE RenderFrom(_, _)
RenderFrom(parts, i) ==
    IF i >= Len(parts) THEN <<>>
    ELSE RenderPart(i, parts[i + 1]) \o RenderFrom(parts, i + 1)

Blocked(candidate) == candidate.finish_reason = "SAFETY"

SafetyOut(candidate) ==
    <<Call("warning", "safety_blocked", 0, "")>>
    \o (IF candidate.has_safety_ratings
        THEN <<Call("write", "safety_ratings", 0, "")>> ELSE <<>>)

\* Lines 138-146: the candidate has no content.parts.
NoPartsOut(response) ==
    IF response.text # ""
    THEN <<Call("write", "generated_text_label", 0, ""),
           Call("write", "response_text", 0, response.text)>>
    ELSE <<Call("warning", "unrecognized", 0, ""),
           Call("write", "raw_label", 0, ""),
           Call("json", "raw_response", 0, "")>>

\* slip: the safety test is an `if` of its own, the parts are rendered after it
RenderCandidateSafetyFallsThrough(response) ==
    LET candidate == response.candidates[1]
    IN  (IF Blocked(candidate) THEN SafetyOut(candidate) ELSE <<>>)
        \o (IF candidate.shape = "parts" THEN RenderFrom(candidate.parts, 0)
            ELSE NoPartsOut(response))

\* Lines 109-146: the first candidate.
RenderCandidate(response) ==
    LET candidate == response.candidates[1]
    IN  IF Blocked(candidate) THEN SafetyOut(candidate)
        ELSE IF candidate.shape = "parts" THEN RenderFrom(candidate.parts, 0)
        ELSE NoPartsOut(response)

\* slip: a response without candidates is reported with st.error
RenderResponseErrorOnEmpty(response) ==
    IF response.candidates # <<>> THEN RenderCandidate(response)
    ELSE <<Call("error", "no_candidates", 0, "")>>

\* Lines 108-152.
RenderResponse(response) ==
    IF response.candidates # <<>> THEN RenderCandidate(response)
    ELSE <<Call("warning", "no_candidates", 0, "")>>
         \o (IF response.has_prompt_feedback
             THEN <<Call("write", "prompt_feedback", 0, "")>> ELSE <<>>)

\* slip: the empty-prompt test is an `if` of its own instead of an `elif`
DisplayBlockWarnsAlways(content, button, text) ==
    (IF content # None
     THEN <<Call("subheader", "generated_content", 0, "")>> \o RenderResponse(content)
     ELSE <<>>)
    \o (IF button /\ text = ""
        THEN <<Call("warning", "empty_prompt", 0, "")>> ELSE <<>>)

\* Lines 102-166: what the display block adds to the page.
DisplayBlock(content, button, text) ==
    IF content # None
    THEN <<Call("subheader", "generated_content", 0, "")>> \o RenderResponse(content)
    ELSE IF button /\ text = ""
         THEN <<Call("warning", "empty_prompt", 0, "")>>
         ELSE <<>>

----------------------------------------------------------------------------
(* The generate handler, lines 63-98 *)

\* What the try block can do: raise before the call (configure, the model or
\* the configuration object), raise in the call, or return a response.
TryOutcomes == {"setup_raised", "call_raised", "ok"}

\* slip: the except clause calls generate_content a second time
HandlerCallsRetry(oc) ==
    IF oc = "call_raised" THEN 2 ELSE IF oc = "ok" THEN 1 ELSE 0

\* Lines 87-91: the number of generate_content calls of a handler run.
HandlerCalls(oc) == IF oc \in {"call_raised", "ok"} THEN 1 ELSE 0

\* slip: the except clause shows only the fixed advice, not the exception
HandlerOutSwallows(oc, e) ==
    CASE oc = "skipped" -> <<>>
      [] oc = "no_key" -> <<Call("warning", "api_key_missing", 0, "")>>
      [] oc = "setup_raised" -> <<Call("error", "check_api_key", 0, "")>>
      [] oc = "call_raised" -> <<Call("info", "generating", 0, ""),
                                 Call("error", "check_api_key", 0, "")>>
      [] oc = "ok" -> <<Call("info", "generating", 0, "")>>

\* Lines 65, 83, 97-98: what the handler adds to the page.
HandlerOut(oc, e) ==
    CASE oc = "skipped" -> <<>>
      [] oc = "no_key" -> <<Call("warning", "api_key_missing", 0, "")>>
      [] oc = "setup_raised" -> <<Call("error", "exception", 0, e),
                                  Call("error", "check_api_key", 0, "")>>
      [] oc = "call_raised" -> <<Call("info", "generating", 0, ""),
                                 Call("error", "exception", 0, e),
                                 Call("error", "check_api_key", 0, "")>>
      [] oc = "ok" -> <<Call("info", "generating", 0, "")>>

\* slip: the except clause clears the slot
HandlerStoreClears(oc, content, response) ==
    IF oc = "ok" THEN response
    ELSE IF oc \in {"setup_raised", "call_raised"} THEN None
    ELSE content

\* Line 94: the slot after the handler.
HandlerStore(oc, content, response) == IF oc = "ok" THEN response ELSE content

----------------------------------------------------------------------------
(* Actions *)

Init ==
    /\ generate_button = FALSE
    /\ prompt = ""
    /\ google_api_key = ""
    /\ generated_content = Unset
    /\ out = <<>>
    /\ pc = "idle"
    /\ runs = 0
    /\ api_calls = 0
    /\ outcome = "skipped"
    /\ err = ""
    /\ content_before = Unset

\* Lines 10-61: a script run starts (any widget interaction reruns the
\* script); the widgets are read and the session slot is initialised.
StartRun ==
    /\ pc = "idle"
    /\ runs < MaxRuns
    /\ \E b \in BOOLEAN, p \in Prompts, k \in ApiKeys :
        /\ generate_button' = b
        /\ prompt' = p
        /\ google_api_key' = k
    /\ generated_content' = IF generated_content = Unset THEN None ELSE generated_content
    /\ content_before' = generated_content'
    /\ out' = <<>>
    /\ outcome' = "skipped"
    /\ err' = ""
    /\ runs' = runs + 1
    /\ pc' = "handler"
    /\ UNCHANGED api_calls

HandlerDoes(oc, e, response) ==
    /\ outcome' = oc
    /\ err' = IF oc \in {"setup_raised", "call_raised"} THEN e ELSE ""
    /\ api_calls' = api_calls + HandlerCalls(oc)
    /\ out' = out \o HandlerOut(oc, e)
    /\ generated_content' = HandlerStore(oc, generated_content, response)

\* Lines 63-98.
Handler ==
    /\ pc = "handler"
    /\ pc' = "display"
    /\ IF generate_button /\ prompt # ""
       THEN IF google_api_key = ""
            THEN HandlerDoes("no_key", "", None)
            ELSE \E oc \in TryOutcomes, e \in ErrorMessages, r \in SessionResponses :
                    HandlerDoes(oc, e, r)
       ELSE HandlerDoes("skipped", "", None)
    /\ UNCHANGED <<generate_button, prompt, google_api_key, runs, content_before>>

\* Lines 101-166.
Display ==
    /\ pc = "display"
    /\ pc' = "idle"
    /\ out' = out \o DisplayBlock(generated_content, generate_button, prompt)
    /\ UNCHANGED <<generate_button, prompt, google_api_key, generated_content,
                   runs, api_calls, outcome, err, content_before>>

Next == StartRun \/ Handler \/ Display

Spec == Init /\ [][Next]_vars

\* The display block on every response shape: the first run of a session, in
\* which the upstream call has just returned the response.
InitDisplay ==
    /\ generate_button = TRUE
    /\ prompt = "a cat"
    /\ google_api_key = "key"
    /\ generated_content \in Responses
    /\ out = HandlerOut("ok", "")
    /\ pc = "display"
    /\ runs = 1
    /\ api_calls = 1
    /\ outcome = "ok"
    /\ err = ""
    /\ content_before = None

NextDisplay == Display

SpecDisplay == InitDisplay /\ [][NextDisplay]_vars

----------------------------------------------------------------------------
(* Vocabulary of the properties *)

\* A script run has completed and its page is `out`.
Finished == pc = "idle" /\ runs > 0

HasContent(c) == c # None /\ c # Unset

\* The display block went through the loop over the parts of the first candidate.
PartsLooped(c) ==
    /\ HasContent(c)
    /\ c.candidates # <<>>
    /\ c.candidates[1].finish_reason # "SAFETY"
    /\ c.candidates[1].shape = "parts"

PartsRendered == Finished /\ PartsLooped(generated_content)

TheParts == generated_content.candidates[1].parts

Shows(page, c) == \E j \in 1..Len(page) : page[j] = c

IsTextBody(c) == c.fn = "write" /\ c.what = "text"

IsTextOutput(c) == c.fn = "write" /\ c.what \in {"text_label", "text"}

IsFileWrite(c) == c.fn = "file_write"

IsError(c) == c.fn = "error"

Images == SelectSeq(out, IsImage)

Vals(calls) == [j \in 1..Len(calls) |-> calls[j].val]

Decodable == {"b64A", "b64B"}

ExpectedImage(data) == IF data = "b64A" THEN "imageA" ELSE "imageB"

\* Positions (1-based) of the parts with inline data an image can be made of.
DecodableIdx(parts) ==
    {k \in 1..Len(parts) : parts[k].inline_data.set /\ parts[k].inline_data.data \in Decodable}

\* Positions of the parts with neither usable inline data nor non-empty text.
NeitherIdx(parts) ==
    {k \in 1..Len(parts) :
        /\ parts[k].text = ""
        /\ ~(parts[k].inline_data.set /\ parts[k].inline_data.data \in Decodable)}

\* The non-empty texts of the parts without inline data, in part order.
RECURSIVE ExpectedTranscript(_)
ExpectedTranscript(parts) ==
    IF parts = <<>> THEN <<>>
    ELSE (IF ~parts[1].inline_data.set /\ parts[1].text # ""
          THEN <<parts[1].text>> ELSE <<>>)
         \o ExpectedTranscript(Tail(parts))

CallsAt(page, k) == {j \in 1..Len(page) : page[j].idx = k}

----------------------------------------------------------------------------
(* C1 *)

\* C1, as stated: of the parts of one response that carry inline binary data
\* only the first becomes an image, so one response yields at most one image.
C1_AtMostOneImage == PartsRendered => Len(Images) <= 1

\* C1, amended: every part whose inline data decodes to an image is rendered
\* as an image of its own, captioned with its position, in part order; a
\* response with n such parts yields n images.
C1_EveryImageRendered ==
    PartsRendered =>
        /\ Len(Images) = Cardinality(DecodableIdx(TheParts))
        /\ \A j \in 1..Len(Images) :
            /\ Images[j].idx \in DecodableIdx(TheParts)
            /\ Images[j].val = ExpectedImage(TheParts[Images[j].idx].inline_data.data)
            /\ j > 1 => Images[j - 1].idx < Images[j].idx

C1_TwoImages ==
    /\ PartsRendered
    /\ Cardinality(DecodableIdx(TheParts)) >= 2
    /\ Len(Images) >= 2

----------------------------------------------------------------------------
(* C2 *)

\* C2, as stated: the text output of the loop is exactly the non-empty texts
\* of the parts without inline data, in part order, with no label or
\* separator inserted between them.
C2_TextOutputUnlabelled ==
    PartsRendered => Vals(SelectSeq(out, IsTextOutput)) = ExpectedTranscript(TheParts)

\* C2, amended: the text bodies written are exactly the non-empty texts of
\* the parts without inline data, in part order, none dropped, duplicated or
\* reordered, and each body is written right after a label line
\* "Text Part <position>:" of its own.
C2_TextBodiesInOrderWithLabel ==
    PartsRendered =>
        /\ Vals(SelectSeq(out, IsTextBody)) = ExpectedTranscript(TheParts)
        /\ \A j \in 1..Len(out) :
            /\ IsTextBody(out[j]) =>
                /\ j > 1
                /\ out[j - 1] = Call("write", "text_label", out[j].idx, "")
                /\ TheParts[out[j].idx].text = out[j].val
            /\ out[j].what = "text_label" => j < Len(out) /\ IsTextBody(out[j + 1])

C2_TextAroundImage ==
    /\ PartsRendered
    /\ Len(TheParts) = 3
    /\ TheParts[1] = [inline_data |-> NoInline, text |-> "t2"]
    /\ TheParts[2].inline_data.set
    /\ TheParts[3] = [inline_data |-> NoInline, text |-> "t1"]
    /\ Vals(SelectSeq(out, IsTextBody)) = <<"t2", "t1">>

----------------------------------------------------------------------------
(* C3 *)

\* C3, as stated: a part with neither usable inline data nor non-empty text
\* produces no output of any kind.
C3_SkippedSilently ==
    PartsRendered => \A k \in NeitherIdx(TheParts) : CallsAt(out, k) = {}

\* C3, amended: such a part produces exactly one message and nothing else
\* (the "Unknown Part" line when it has no inline data, a warning when its
\* inline data is empty or does not decode), the display step leaves the
\* session slot and the call count as they were, and every part, before or
\* after it, is still processed under its own position.
C3_SkippedWithOneMessage ==
    [][pc = "display" =>
        /\ generated_content' = generated_content
        /\ api_calls' = api_calls
        /\ PartsRendered' =>
            /\ \A k \in NeitherIdx(TheParts) :
                /\ Cardinality(CallsAt(out', k)) = 1
                /\ \A j \in CallsAt(out', k) :
                    out'[j] = Call(IF TheParts[k].inline_data.set THEN "warning" ELSE "write",
                                   IF ~TheParts[k].inline_data.set THEN "unknown_part"
                                   ELSE IF TheParts[k].inline_data.data = "" THEN "no_data"
                                   ELSE "decode_failed",
                                   k, "")
            /\ \A k \in 1..Len(TheParts) : CallsAt(out', k) # {}
            /\ \A j \in 2..Len(out') :
                out'[j - 1].idx # 0 => out'[j - 1].idx <= out'[j].idx]_vars

C3_SkippedThenText ==
    /\ PartsRendered
    /\ Len(TheParts) = 3
    /\ NeitherIdx(TheParts) = {1, 2}
    /\ ~TheParts[1].inline_data.set
    /\ TheParts[2].inline_data.set
    /\ TheParts[3].text = "t1"
    /\ Shows(out, Call("write", "text", 3, "t1"))

----------------------------------------------------------------------------
(* C4 *)

\* No candidates, an empty part list, or a candidate without content or
\* parts on a response that has no text of its own.
EmptyOrMalformed(c) ==
    \/ c.candidates = <<>>
    \/ /\ c.candidates # <<>>
       /\ \/ c.candidates[1].shape = "parts" /\ c.candidates[1].parts = <<>>
          \/ c.candidates[1].shape # "parts" /\ c.text = ""

C4_NoCandidatesShown ==
    /\ Finished
    /\ HasContent(generated_content)
    /\ generated_content.candidates = <<>>
    /\ Shows(out, Call("warning", "no_candidates", 0, ""))

----------------------------------------------------------------------------
(* C7 *)

FileWrites == Len(SelectSeq(out, IsFileWrite))

\* C7, as stated: exactly one filesystem write when an image was produced,
\* none otherwise.
C7_OneWritePerArtifact ==
    PartsRendered => FileWrites = (IF Len(Images) >= 1 THEN 1 ELSE 0)

\* C7, amended: displaying a response performs no filesystem write, whether
\* or not a binary part was found; the image is decoded in memory and handed
\* to st.image.
C7_NoFileWrite == Finished => FileWrites = 0

C7_ImageShownUnsaved ==
    /\ PartsRendered
    /\ Len(Images) >= 1
    /\ FileWrites = 0

----------------------------------------------------------------------------
(* C8 *)

BlockedContent(c) ==
    HasContent(c) /\ c.candidates # <<>> /\ c.candidates[1].finish_reason = "SAFETY"

\* C8: when the first candidate of the stored response has finish_reason
\* SAFETY, the display step shows the safety warning, renders no image and no
\* text of the response whatever its parts are, and makes no upstream call.
C8_SafetyBlockRendersNothing ==
    [][(pc = "display" /\ BlockedContent(generated_content)) =>
        /\ Shows(out', Call("warning", "safety_blocked", 0, ""))
        /\ \A j \in 1..Len(out') :
            /\ ~IsImage(out'[j])
            /\ ~(out'[j].fn = "write"
                 /\ out'[j].what \in {"text_label", "text", "response_text", "unknown_part"})
        /\ api_calls' = api_calls]_vars

C8_BlockedWithParts ==
    /\ Finished
    /\ BlockedContent(generated_content)
    /\ generated_content.candidates[1].shape = "parts"
    /\ DecodableIdx(TheParts) # {}
    /\ ExpectedTranscript(TheParts) # <<>>
    /\ Shows(out, Call("warning", "safety_blocked", 0, ""))

----------------------------------------------------------------------------
(* C5, C6, C9, C10: the session *)

Failed(oc) == oc \in {"setup_raised", "call_raised"}

\* C5: when the try block of the generate handler raises, the page of the
\* run carries an st.error with the message of the exception, and nothing of
\* the failed call is stored as a result.
C5_FailureReported ==
    (pc \in {"display", "idle"} /\ Failed(outcome)) =>
        /\ err \in ErrorMessages
        /\ Shows(out, Call("error", "exception", 0, err))
        /\ generated_content = content_before

C5_CallFailed ==
    /\ Finished
    /\ outcome = "call_raised"
    /\ Shows(out, Call("error", "exception", 0, "quota exceeded"))

\* C6: the upstream call is made at most once per run, only by the handler
\* of a run in which Generate is pressed with a non-empty prompt and a
\* resolved key; a failed call is followed by no call of its own accord.
C6_NoRetry ==
    [][/\ api_calls' <= runs'
       /\ api_calls' # api_calls =>
            /\ api_calls' = api_calls + 1
            /\ pc = "handler"
            /\ generate_button
            /\ prompt # ""
            /\ google_api_key # ""]_vars

C6_FailedOnce ==
    /\ Finished
    /\ runs = 2
    /\ outcome = "call_raised"
    /\ api_calls = 2

\* C9: a handler that fails leaves the session slot as it was, the display
\* step of the failing run renders the stored response next to the error, and
\* a slot that holds a response never goes back to empty.
C9_FailureKeepsContent ==
    [][/\ HasContent(generated_content) => HasContent(generated_content')
       /\ (pc = "handler" /\ Failed(outcome')) => generated_content' = generated_content
       /\ (pc = "display" /\ Failed(outcome) /\ HasContent(content_before)) =>
            /\ generated_content' = content_before
            /\ Shows(out', Call("error", "exception", 0, err))
            /\ Shows(out', Call("subheader", "generated_content", 0, ""))]_vars

C9_StaleContentWithError ==
    /\ Finished
    /\ Failed(outcome)
    /\ HasContent(content_before)
    /\ generated_content = content_before
    /\ Shows(out, Call("subheader", "generated_content", 0, ""))

\* C10: in a run where Generate is pressed with an empty prompt, the empty
\* prompt warning is shown exactly when no content is stored; stored content
\* is rendered again, without the warning.
C10_EmptyPromptWarning ==
    (Finished /\ generate_button /\ prompt = "") =>
        /\ Shows(out, Call("warning", "empty_prompt", 0, "")) <=> generated_content = None
        /\ HasContent(generated_content) =>
            Shows(out, Call("subheader", "generated_content", 0, ""))

C10_EmptyPromptWithContent ==
    /\ Finished
    /\ generate_button
    /\ prompt = ""
    /\ HasContent(generated_content)

====
